---------------------------- MODULE Spec2Model ----------------------------
(***************************************************************************)
(* Mergington High School activities API (src/app.py).                     *)
(*                                                                         *)
(* The module-level dictionary `activities` is shared by every request.    *)
(* The two mutating endpoints are plain `def` handlers, which FastAPI runs *)
(* on a thread pool: a handler can be pre-empted between its membership    *)
(* test and its list mutation.  A handler is therefore modelled as the     *)
(* steps between which another thread can run:                             *)
(*    existence test + membership test   (lines 177-188 / 207-218)         *)
(*    participants.append / .remove, add_task and return                   *)
(*                                       (lines 190-200 / 220-230)         *)
(* and send_email (lines 127-147) runs after the response was returned.    *)
(***************************************************************************)
EXTENDS Integers, Sequences, FiniteSets, TLC

(***************************************************************************)
(* Bounds of the model.                                                    *)
(***************************************************************************)
\* number of request threads that can be in flight at once
NumWorkers == 2
\* number of requests in one run
MaxRequests == 3

Workers == 1..NumWorkers

(***************************************************************************)
(* The seed registry (lines 27-82).  Two of the nine activities are kept:  *)
(* a handler only ever touches activities[activity_name].                  *)
(***************************************************************************)
SeedActivities ==
    [a \in {"Chess Club", "Math Club"} |->
        IF a = "Chess Club"
        THEN [description |-> "Learn strategies and compete in chess tournaments",
              schedule |-> "Fridays, 3:30 PM - 5:00 PM",
              max_participants |-> 12,
              participants |-> <<"michael@mergington.edu", "daniel@mergington.edu">>]
        ELSE [description |-> "Solve challenging problems and participate in math competitions",
              schedule |-> "Tuesdays, 3:30 PM - 4:30 PM",
              max_participants |-> 10,
              participants |-> <<"james@mergington.edu", "benjamin@mergington.edu">>]]

\* activity names a request can carry: the keys and one name that is no key
ActivityNames == DOMAIN SeedActivities \cup {"Nonexistent Club"}

\* emails a request can carry: a seed member of Chess Club and a newcomer
Emails == {"michael@mergington.edu", "new@mergington.edu"}

\* students whose earlier signups filled rosters before the run starts
Fillers == <<"s01@mergington.edu", "s02@mergington.edu", "s03@mergington.edu",
             "s04@mergington.edu", "s05@mergington.edu", "s06@mergington.edu",
             "s07@mergington.edu", "s08@mergington.edu", "s09@mergington.edu",
             "s10@mergington.edu">>

(***************************************************************************)
(* Python list operations used by the handlers.                            *)
(***************************************************************************)
\* a membership test that looks at the first element only
ContainsFirst(s, e) == Len(s) > 0 /\ s[1] = e

\* `email in participants` (lines 184, 214)
Contains(s, e) == \E i \in 1..Len(s) : s[i] = e

\* an insertion at the head of the list
ListPrepend(s, e) == <<e>> \o s

\* `participants.append(email)` (line 191)
ListAppend(s, e) == Append(s, e)

\* index of the first occurrence of e in s; 0 when there is none
IndexOf(s, e) ==
    IF \E i \in 1..Len(s) : s[i] = e
    THEN CHOOSE i \in 1..Len(s) : s[i] = e /\ \A j \in 1..(i - 1) : s[j] /= e
    ELSE 0

\* a removal that is off by one: drops the element before the first
\* occurrence (the last element when e comes first)
ListRemoveOffByOne(s, e) ==
    LET i == IndexOf(s, e)
        j == IF i > 1 THEN i - 1 ELSE Len(s)
    IN  SubSeq(s, 1, j - 1) \o SubSeq(s, j + 1, Len(s))

\* `participants.remove(email)` (line 221): drops the first occurrence;
\* the caller handles the ValueError of a missing element
ListRemove(s, e) ==
    LET i == IndexOf(s, e)
    IN  SubSeq(s, 1, i - 1) \o SubSeq(s, i + 1, Len(s))

\* `activity_name not in activities` is false (lines 177, 207)
HasActivity(reg, name) == name \in DOMAIN reg

(***************************************************************************)
(* Responses.                                                              *)
(***************************************************************************)
\* the unknown activity reported as a bad request
ActivityNotFoundAs400 == [status |-> 400, detail |-> "Activity not found"]

\* HTTPException(status_code=404, detail="Activity not found") (178, 208)
ActivityNotFound == [status |-> 404, detail |-> "Activity not found"]

\* HTTPException(400, "Student is already signed up") (lines 185-188)
AlreadySignedUp == [status |-> 400, detail |-> "Student is already signed up"]

\* HTTPException(400, "Student is not signed up ...") (lines 215-218)
NotSignedUp ==
    [status |-> 400, detail |-> "Student is not signed up for this activity"]

\* return activities (line 92)
Listing == [status |-> 200, detail |-> "activities"]

\* return {"message": ...} (lines 200, 230)
Success == [status |-> 200, detail |-> "message"]

\* list.remove raised ValueError, which no handler catches (line 221)
ServerError == [status |-> 500, detail |-> "ValueError"]

(***************************************************************************)
(* Notification messages.                                                  *)
(***************************************************************************)
\* _registration_email_body (lines 150-159); no seed activity has a location
RegistrationEmailBody(name, activity, email) ==
    <<"Registration Confirmation", email, name, activity.schedule, "On campus">>

\* _cancellation_email_body (lines 162-170)
CancellationEmailBody(name, activity, email) ==
    <<"Cancellation Confirmation", email, name, activity.schedule>>

\* the task added at lines 193-198
RegistrationTask(name, activity, email) ==
    [subject |-> <<"Successfully Registered for ", name>>,
     body |-> RegistrationEmailBody(name, activity, email),
     to_email |-> email]

\* the task added at lines 223-228
CancellationTask(name, activity, email) ==
    [subject |-> <<"Activity Registration Cancelled - ", name>>,
     body |-> CancellationEmailBody(name, activity, email),
     to_email |-> email]

(***************************************************************************)
(* Notifier configuration.                                                 *)
(***************************************************************************)
\* EmailSettings.__init__ (lines 103-111), the fields is_configured reads.
\* An unset or empty variable is "", both false in Python; the port is
\* always an integer (587 unless SMTP_PORT says otherwise).
Settings ==
    {[host |-> "smtp.mergington.edu", port |-> 587,
      from_email |-> "activities@mergington.edu"],
     [host |-> "", port |-> 587, from_email |-> "activities@mergington.edu"],
     [host |-> "smtp.mergington.edu", port |-> 0,
      from_email |-> "activities@mergington.edu"],
     [host |-> "smtp.mergington.edu", port |-> 587, from_email |-> ""]}

\* a configuration test that forgets the sender address
IsConfiguredNoSender(settings) == settings.host /= "" /\ settings.port /= 0

\* EmailSettings.is_configured (lines 119-121)
IsConfigured(settings) ==
    settings.host /= "" /\ settings.port /= 0 /\ settings.from_email /= ""

(***************************************************************************)
(* State.                                                                  *)
(***************************************************************************)
VARIABLES
    activities,     \* the module-level registry
    email_settings, \* the EmailSettings read from the environment at import
    pc,             \* per worker: where its handler stands
    req,            \* per worker: the request it is handling
    background,     \* per worker: the tasks of its BackgroundTasks
    smtp,           \* the message this step handed to the transport, or <<>>
    console,        \* the line this step printed, or <<>>
    startup,        \* history: the registry when the run started
    served,         \* history: number of requests answered so far
    signed,         \* history: the <<name, email>> pairs whose last answered
                    \* successful request was a signup
    signup_order,   \* history, per activity: the startup roster, then the
                    \* students in the order of their last successful
                    \* signup, without those who unregistered since
    log             \* history: the last two answered requests, oldest first

vars == <<activities, email_settings, pc, req, background, smtp, console,
          startup, served, signed, signup_order, log>>

NoRequest == [op |-> "none", name |-> "", email |-> "", before |-> <<>>]

\* seed rosters followed by the first n fillers, leaving `free` slots
\* (free < 0: the seed itself)
Registry(free) ==
    [a \in DOMAIN SeedActivities |->
        LET act == SeedActivities[a]
            n == act.max_participants - Len(act.participants) - free
        IN  IF free < 0 THEN act
            ELSE [act EXCEPT !.participants = @ \o SubSeq(Fillers, 1, n)]]

\* the registry as seeded, or as earlier signups of the fillers left it:
\* every roster full, or one slot short of full
Init ==
    /\ \E free \in {-1, 0, 1} : activities = Registry(free)
    /\ email_settings \in Settings
    /\ pc = [w \in Workers |-> "idle"]
    /\ req = [w \in Workers |-> NoRequest]
    /\ background = [w \in Workers |-> <<>>]
    /\ smtp = <<>>
    /\ console = <<>>
    /\ startup = activities
    /\ served = 0
    /\ signed = {}
    /\ signup_order = [a \in DOMAIN activities |-> activities[a].participants]
    /\ log = <<>>

\* a step of a handler hands nothing to the transport and prints nothing
Quiet == smtp' = <<>> /\ console' = <<>>

\* the pool's threads are interchangeable: a request is taken by the first
\* idle one
Takes(w) == pc[w] = "idle" /\ \A v \in Workers : v < w => pc[v] /= "idle"

InFlight(w) == pc[w] \in {"append", "remove"}

\* requests received so far
Started == served + Cardinality({w \in Workers : InFlight(w)})

\* one answered request, as the caller and the registry saw it: `before` is
\* the registry when the handler was entered, `after` when it answered
Entry(op, name, email, response, before, after, tasks) ==
    [op |-> op, name |-> name, email |-> email, response |-> response,
     before |-> before, after |-> after, tasks |-> tasks]

Answer(entry) ==
    /\ log' = IF log = <<>> THEN <<entry>> ELSE <<log[Len(log)], entry>>
    /\ served' = served + 1
    /\ signed' = IF entry.response.status /= 200 THEN signed
                 ELSE IF entry.op = "signup"
                 THEN signed \cup {<<entry.name, entry.email>>}
                 ELSE IF entry.op = "unregister"
                 THEN signed \ {<<entry.name, entry.email>>}
                 ELSE signed
    /\ signup_order' =
        IF entry.response.status /= 200 \/ entry.op = "list" THEN signup_order
        ELSE [signup_order EXCEPT ![entry.name] =
                 LET others == SelectSeq(@, LAMBDA x : x /= entry.email)
                 IN  IF entry.op = "signup" THEN Append(others, entry.email)
                     ELSE others]

\* the handler raised before reaching its mutation
Reject(w, op, name, email, response) ==
    /\ UNCHANGED <<activities, email_settings, pc, req, background, startup>>
    /\ Answer(Entry(op, name, email, response, activities, activities', <<>>))
    /\ Quiet

\* the handler passed its validation and stands before its mutation
Admit(w, op, name, email, at) ==
    /\ pc' = [pc EXCEPT ![w] = at]
    /\ req' = [req EXCEPT ![w] = [op |-> op, name |-> name, email |-> email,
                                   before |-> activities]]
    /\ Quiet
    /\ UNCHANGED <<activities, email_settings, background, startup, served,
                   signed, signup_order, log>>

\* a return that forgets the add_task
DispatchNothing(w, task) ==
    /\ background' = background
    /\ Answer(Entry(req[w].op, req[w].name, req[w].email, Success,
                    req[w].before, activities', background'[w]))
    /\ pc' = [pc EXCEPT ![w] = "idle"]
    /\ req' = [req EXCEPT ![w] = NoRequest]
    /\ Quiet
    /\ UNCHANGED <<email_settings, startup>>

\* background_tasks.add_task(send_email, ...) and the return of a handler
\* whose mutation is done (lines 193-200, 223-230)
Dispatch(w, task) ==
    /\ background' = [background EXCEPT ![w] = Append(@, task)]
    /\ Answer(Entry(req[w].op, req[w].name, req[w].email, Success,
                    req[w].before, activities', background'[w]))
    /\ pc' = [pc EXCEPT ![w] = "background"]
    /\ req' = [req EXCEPT ![w] = NoRequest]
    /\ Quiet
    /\ UNCHANGED <<email_settings, startup>>

(***************************************************************************)
(* get_activities, lines 90-92: the registry as it stands is the answer    *)
(* (the entry's `after`).                                                  *)
(***************************************************************************)
GetActivities(w) ==
    /\ Takes(w)
    /\ Started < MaxRequests
    /\ UNCHANGED <<activities, email_settings, pc, req, background, startup>>
    /\ Answer(Entry("list", "", "", Listing, activities, activities', <<>>))
    /\ Quiet

\* a signup that turns away a student enrolled in any activity
SignupValidateAnyActivity(w, name, email) ==
    /\ Takes(w)
    /\ Started < MaxRequests
    /\ IF ~HasActivity(activities, name)
       THEN Reject(w, "signup", name, email, ActivityNotFound)
       ELSE IF \E a \in DOMAIN activities :
                   Contains(activities[a].participants, email)
       THEN Reject(w, "signup", name, email, AlreadySignedUp)
       ELSE Admit(w, "signup", name, email, "append")

(***************************************************************************)
(* signup_for_activity, lines 174-200.                                     *)
(***************************************************************************)
SignupValidate(w, name, email) ==
    /\ Takes(w)
    /\ Started < MaxRequests
    /\ IF ~HasActivity(activities, name)
       THEN Reject(w, "signup", name, email, ActivityNotFound)
       ELSE IF Contains(activities[name].participants, email)
       THEN Reject(w, "signup", name, email, AlreadySignedUp)
       ELSE Admit(w, "signup", name, email, "append")

\* an append that also counts the taken place down from max_participants
SignupAppendCounting(w) ==
    /\ pc[w] = "append"
    /\ activities' =
          [activities EXCEPT ![req[w].name] =
              [@ EXCEPT !.participants = ListAppend(@, req[w].email),
                        !.max_participants = @ - 1]]
    /\ Dispatch(w, RegistrationTask(req[w].name, activities'[req[w].name],
                                    req[w].email))

\* lines 190-200: the append, the add_task and the return; between them
\* the handler touches nothing another thread can see
SignupAppend(w) ==
    /\ pc[w] = "append"
    /\ activities' = [activities EXCEPT ![req[w].name].participants =
                                            ListAppend(@, req[w].email)]
    /\ Dispatch(w, RegistrationTask(req[w].name, activities'[req[w].name],
                                    req[w].email))

(***************************************************************************)
(* unregister_from_activity, lines 204-230.                                *)
(***************************************************************************)
\* an unregister that skips the membership test of lines 213-218
UnregisterUnchecked(w, name, email) ==
    /\ Takes(w)
    /\ Started < MaxRequests
    /\ IF ~HasActivity(activities, name)
       THEN Reject(w, "unregister", name, email, ActivityNotFound)
       ELSE Admit(w, "unregister", name, email, "remove")

UnregisterValidate(w, name, email) ==
    /\ Takes(w)
    /\ Started < MaxRequests
    /\ IF ~HasActivity(activities, name)
       THEN Reject(w, "unregister", name, email, ActivityNotFound)
       ELSE IF ~Contains(activities[name].participants, email)
       THEN Reject(w, "unregister", name, email, NotSignedUp)
       ELSE Admit(w, "unregister", name, email, "remove")

\* lines 220-230: the remove, the add_task and the return
UnregisterRemove(w) ==
    /\ pc[w] = "remove"
    /\ IF IndexOf(activities[req[w].name].participants, req[w].email) > 0
       THEN /\ activities' = [activities EXCEPT ![req[w].name].participants =
                                                   ListRemove(@, req[w].email)]
            /\ Dispatch(w, CancellationTask(req[w].name,
                                            activities'[req[w].name],
                                            req[w].email))
       ELSE \* ValueError: list.remove(x): x not in list
            /\ UNCHANGED <<activities, email_settings, background, startup>>
            /\ Answer(Entry(req[w].op, req[w].name, req[w].email, ServerError,
                            req[w].before, activities', <<>>))
            /\ pc' = [pc EXCEPT ![w] = "idle"]
            /\ req' = [req EXCEPT ![w] = NoRequest]
            /\ Quiet

(***************************************************************************)
(* send_email, lines 127-147.  The response is out; the framework runs the *)
(* request's tasks in order.  `delivered` is the transport's answer.       *)
(***************************************************************************)
\* a send_email that leaves a failed message in the queue, to be tried again
SendEmailRetry(w, delivered) ==
    /\ pc[w] = "background"
    /\ background[w] /= <<>>
    /\ LET task == Head(background[w])
       IN  IF ~IsConfigured(email_settings)
           THEN /\ delivered
                /\ console' = <<"skipped", task.to_email>>
                /\ smtp' = <<>>
           ELSE IF delivered
           THEN /\ smtp' = task
                /\ console' = <<>>
           ELSE /\ console' = <<"failed", task.to_email>>
                /\ smtp' = <<>>
    /\ IF delivered
       THEN /\ background' = [background EXCEPT ![w] = Tail(@)]
            /\ pc' = [pc EXCEPT ![w] =
                         IF Tail(background[w]) = <<>> THEN "idle" ELSE @]
       ELSE UNCHANGED <<background, pc>>
    /\ UNCHANGED <<activities, email_settings, req, startup, served, signed,
                   signup_order, log>>

SendEmail(w, delivered) ==
    /\ pc[w] = "background"
    /\ background[w] /= <<>>
    /\ LET task == Head(background[w])
       IN  IF ~IsConfigured(email_settings)
           THEN \* lines 129-131
                /\ delivered
                /\ console' = <<"skipped", task.to_email>>
                /\ smtp' = <<>>
           ELSE IF delivered
           THEN \* lines 140-145
                /\ smtp' = task
                /\ console' = <<>>
           ELSE \* lines 146-147
                /\ console' = <<"failed", task.to_email>>
                /\ smtp' = <<>>
    /\ background' = [background EXCEPT ![w] = Tail(@)]
    /\ pc' = [pc EXCEPT ![w] = IF Tail(background[w]) = <<>> THEN "idle" ELSE @]
    /\ UNCHANGED <<activities, email_settings, req, startup, served, signed,
                   signup_order, log>>

(***************************************************************************)
(* Specifications.                                                         *)
(***************************************************************************)
Signup == \E w \in Workers, name \in ActivityNames, email \in Emails :
              SignupValidate(w, name, email)

Unregister == \E w \in Workers, name \in ActivityNames, email \in Emails :
                  UnregisterValidate(w, name, email)

List == \E w \in Workers : GetActivities(w)

DoAppend == \E w \in Workers : SignupAppend(w)

DoRemove == \E w \in Workers : UnregisterRemove(w)

Notify == \E w \in Workers, delivered \in BOOLEAN : SendEmail(w, delivered)

\* requests arrive at any time: handlers interleave
Next == Signup \/ Unregister \/ List \/ DoAppend \/ DoRemove \/ Notify

Spec == Init /\ [][Next]_vars

\* requests are processed one at a time: a handler is entered only when no
\* other handler is in flight
NoneInFlight == \A w \in Workers : ~InFlight(w)

SeqSignup == NoneInFlight /\ Signup

SeqUnregister == NoneInFlight /\ Unregister

SeqList == NoneInFlight /\ List

SeqNext ==
    \/ SeqSignup \/ SeqUnregister \/ SeqList
    \/ DoAppend \/ DoRemove \/ Notify

SeqSpec == Init /\ [][SeqNext]_vars

\* handlers interleave as in Spec, and a task runs as soon as its response
\* is out.  send_email reads and writes nothing a handler reads or writes,
\* so a step of it can be moved ahead of the handler steps that precede it:
\* every registry and every answer of Spec is reached here too (by another
\* thread of the pool, perhaps).
NoTaskWaiting == \A w \in Workers : background[w] = <<>>

PromptSignup == NoTaskWaiting /\ Signup

PromptUnregister == NoTaskWaiting /\ Unregister

PromptAppend == NoTaskWaiting /\ DoAppend

PromptRemove == NoTaskWaiting /\ DoRemove

PromptList == NoTaskWaiting /\ List

PromptNext ==
    \/ PromptSignup \/ PromptUnregister \/ PromptList
    \/ PromptAppend \/ PromptRemove \/ Notify

PromptSpec == Init /\ [][PromptNext]_vars

(***************************************************************************)
(* Vocabulary of the properties.                                           *)
(***************************************************************************)
Occurrences(s, e) == Cardinality({i \in 1..Len(s) : s[i] = e})

Enrolled(reg, name, email) == Occurrences(reg[name].participants, email) > 0

Full(reg, name) ==
    Len(reg[name].participants) = reg[name].max_participants

IsOk(r) == r.status = 200

IsNotFound(r) == r.status = 404

IsAlreadyEnrolled(r) ==
    r.status = 400 /\ r.detail = "Student is already signed up"

IsNotEnrolled(r) ==
    r.status = 400 /\ r.detail = "Student is not signed up for this activity"

\* a rejection of its own kind: none of the other four
IsCapacityExceeded(r) ==
    r.status = 400 /\ ~IsAlreadyEnrolled(r) /\ ~IsNotEnrolled(r)

Answered == 1..Len(log)

\* every request of the run has been answered and is still in the log
WholeRun ==
    /\ served = Len(log)
    /\ \A w \in Workers : ~InFlight(w)

CountOf(P(_)) == Cardinality({i \in Answered : P(log[i].response)})

(***************************************************************************)
(* C1. No roster ever holds more students than its max_participants.       *)
(***************************************************************************)
CapacityInvariant ==
    \A a \in DOMAIN activities :
        Len(activities[a].participants) <= activities[a].max_participants

(***************************************************************************)
(* C2. A signup of a student who is not enrolled, for an activity whose    *)
(* roster is full, is rejected as a failure of its own kind, leaves the    *)
(* roster as it was and dispatches no notification.                        *)
(***************************************************************************)
FullSignupRejected ==
    \A i \in Answered :
        LET e == log[i] IN
        (/\ e.op = "signup"
         /\ e.name \in DOMAIN e.before
         /\ Full(e.before, e.name)
         /\ ~Enrolled(e.before, e.name, e.email))
        => /\ IsCapacityExceeded(e.response)
           /\ e.after[e.name].participants = e.before[e.name].participants
           /\ e.tasks = <<>>

(***************************************************************************)
(* C3. When N >= 2 signups with distinct, not yet enrolled emails race for *)
(* an activity with k < N free slots, exactly k succeed, N - k are         *)
(* rejected for capacity, and the roster ends exactly full.                *)
(***************************************************************************)
RacingSignups(a) ==
    /\ WholeRun
    /\ Len(log) >= 2
    /\ \A i \in Answered :
        /\ log[i].op = "signup"
        /\ log[i].name = a
        /\ ~Enrolled(startup, a, log[i].email)
    /\ \A i, j \in Answered : i /= j => log[i].email /= log[j].email

FreeSlots(a) == startup[a].max_participants - Len(startup[a].participants)

ConcurrentSignupsFillExactly ==
    \A a \in DOMAIN activities :
        (RacingSignups(a) /\ FreeSlots(a) < Len(log))
        => /\ CountOf(IsOk) = FreeSlots(a)
           /\ CountOf(IsCapacityExceeded) = Len(log) - FreeSlots(a)
           /\ Full(activities, a)

(***************************************************************************)
(* C4. When two or more signups of one email race for one activity the     *)
(* email is not enrolled in, exactly one succeeds, the others are told     *)
(* the student is already signed up, and the email is on the roster once.  *)
(***************************************************************************)
SameEmailSignups(a, m) ==
    /\ WholeRun
    /\ Len(log) >= 2
    /\ ~Enrolled(startup, a, m)
    /\ \A i \in Answered :
        log[i].op = "signup" /\ log[i].name = a /\ log[i].email = m

ConcurrentSameSignupOnce ==
    \A a \in DOMAIN activities, m \in Emails :
        SameEmailSignups(a, m)
        => /\ CountOf(IsOk) = 1
           /\ CountOf(IsAlreadyEnrolled) = Len(log) - 1
           /\ Occurrences(activities[a].participants, m) = 1

(***************************************************************************)
(* C5. When two or more unregisters of one enrolled email race for one     *)
(* activity, exactly one succeeds and the others are told the student is   *)
(* not signed up; no request ends outside Ok, NotEnrolled, NotFound.       *)
(***************************************************************************)
SameEmailUnregisters(a, m) ==
    /\ WholeRun
    /\ Len(log) >= 2
    /\ Enrolled(startup, a, m)
    /\ \A i \in Answered :
        log[i].op = "unregister" /\ log[i].name = a /\ log[i].email = m

ConcurrentSameUnregisterOnce ==
    /\ \A a \in DOMAIN activities, m \in Emails :
        SameEmailUnregisters(a, m)
        => /\ CountOf(IsOk) = 1
           /\ CountOf(IsNotEnrolled) = Len(log) - 1
    /\ \A i \in Answered :
        log[i].op = "unregister"
        => \/ IsOk(log[i].response)
           \/ IsNotEnrolled(log[i].response)
           \/ IsNotFound(log[i].response)

(***************************************************************************)
(* C6. With requests processed one at a time, no email is ever twice on a  *)
(* roster.                                                                 *)
(***************************************************************************)
NoDuplicates ==
    \A a \in DOMAIN activities :
        LET roster == activities[a].participants
        IN  Cardinality({roster[i] : i \in 1..Len(roster)}) = Len(roster)

\* a signup of an enrolled student was answered, after a signup succeeded
NoDuplicatesWitness ==
    /\ signed /= {}
    /\ \E i \in Answered :
        /\ log[i].op = "signup"
        /\ log[i].name \in DOMAIN log[i].before
        /\ Enrolled(log[i].before, log[i].name, log[i].email)

(***************************************************************************)
(* C7. With requests processed one at a time: once a signup of e for A has *)
(* succeeded and e was not unregistered from A since, every further signup *)
(* of e for A is answered 400 "already signed up", changes no roster and   *)
(* dispatches no notification.                                             *)
(***************************************************************************)
RepeatedSignupRejected ==
    [][\A a \in DOMAIN activities, m \in Emails :
         (/\ <<a, m>> \in signed
          /\ served' = served + 1
          /\ log'[Len(log')].op = "signup"
          /\ log'[Len(log')].name = a
          /\ log'[Len(log')].email = m)
         => /\ IsAlreadyEnrolled(log'[Len(log')].response)
            /\ activities' = activities
            /\ log'[Len(log')].after = log'[Len(log')].before
            /\ log'[Len(log')].tasks = <<>>
            /\ background' = background]_vars

\* the same signup was rejected twice in a row after it had succeeded
RepeatedSignupWitness ==
    /\ Len(log) = 2
    /\ served >= 3
    /\ log[1].op = "signup" /\ log[2].op = "signup"
    /\ log[1].name = log[2].name /\ log[1].email = log[2].email
    /\ <<log[2].name, log[2].email>> \in signed
    /\ IsAlreadyEnrolled(log[1].response)
    /\ IsAlreadyEnrolled(log[2].response)

(***************************************************************************)
(* C8. A signup or an unregister that names no activity of the registry    *)
(* is answered 404 whatever the email, changes nothing in the registry and *)
(* dispatches no notification.                                             *)
(***************************************************************************)
UnknownActivityNotFound ==
    \A i \in Answered :
        LET e == log[i] IN
        (e.op \in {"signup", "unregister"} /\ e.name \notin DOMAIN e.before)
        => /\ IsNotFound(e.response)
           /\ e.after = e.before
           /\ e.tasks = <<>>

\* both endpoints have answered a request for the unknown name
UnknownActivityWitness ==
    /\ Len(log) = 2
    /\ log[1].op = "signup" /\ log[2].op = "unregister"
    /\ \A i \in Answered : log[i].name \notin DOMAIN activities
    /\ \A i \in Answered : IsNotFound(log[i].response)

(***************************************************************************)
(* C9. An unregister of a student who is not on the roster of an existing  *)
(* activity is answered 400 "not signed up", changes nothing in the        *)
(* registry and dispatches no notification.                                *)
(***************************************************************************)
NonMemberUnregisterRejected ==
    \A i \in Answered :
        LET e == log[i] IN
        (/\ e.op = "unregister"
         /\ e.name \in DOMAIN e.before
         /\ ~Enrolled(e.before, e.name, e.email))
        => /\ IsNotEnrolled(e.response)
           /\ e.after = e.before
           /\ e.tasks = <<>>

\* a stranger's unregister was rejected
NonMemberUnregisterWitness ==
    \E i \in Answered :
        /\ log[i].op = "unregister"
        /\ log[i].name \in DOMAIN log[i].before
        /\ ~Enrolled(log[i].before, log[i].name, log[i].email)
        /\ IsNotEnrolled(log[i].response)

(***************************************************************************)
(* C10. With requests processed one at a time: a successful signup of a    *)
(* student who was not enrolled, immediately followed by the unregister of *)
(* the same student from the same activity, succeeds twice and leaves the  *)
(* whole registry, order of the rosters included, as it was before.        *)
(***************************************************************************)
RoundTripCase ==
    /\ Len(log) = 2
    /\ log[1].op = "signup"
    /\ log[1].name \in DOMAIN log[1].before
    /\ ~Enrolled(log[1].before, log[1].name, log[1].email)
    /\ IsOk(log[1].response)
    /\ log[2].op = "unregister"
    /\ log[2].name = log[1].name
    /\ log[2].email = log[1].email
    /\ log[2].before = log[1].after

RoundTripRestores ==
    RoundTripCase
    => /\ IsOk(log[2].response)
       /\ log[2].after = log[1].before

\* a round trip on a roster that holds other students
RoundTripWitness ==
    /\ RoundTripCase
    /\ IsOk(log[2].response)
    /\ Len(log[1].before[log[1].name].participants) >= 2

(***************************************************************************)
(* More vocabulary: what a request is to answer and to leave behind, given *)
(* the registry it meets.                                                  *)
(***************************************************************************)
Outcome(r) ==
    IF IsOk(r) THEN "Ok"
    ELSE IF IsNotFound(r) THEN "NotFound"
    ELSE IF IsAlreadyEnrolled(r) THEN "AlreadyEnrolled"
    ELSE IF IsNotEnrolled(r) THEN "NotEnrolled"
    ELSE "Fault"

ExpectedOutcome(reg, op, name, email) ==
    IF op = "list" THEN "Ok"
    ELSE IF name \notin DOMAIN reg THEN "NotFound"
    ELSE IF op = "signup"
    THEN IF Enrolled(reg, name, email) THEN "AlreadyEnrolled" ELSE "Ok"
    ELSE IF Enrolled(reg, name, email) THEN "Ok" ELSE "NotEnrolled"

Without(s, e) == SelectSeq(s, LAMBDA x : x /= e)

ExpectedRegistry(reg, op, name, email) ==
    IF op = "list" \/ ExpectedOutcome(reg, op, name, email) /= "Ok" THEN reg
    ELSE IF op = "signup"
    THEN [reg EXCEPT ![name].participants = @ \o <<email>>]
    ELSE [reg EXCEPT ![name].participants = Without(@, email)]

LastEntry == log[Len(log)]

(***************************************************************************)
(* C11. A successful signup hands over exactly one registration message    *)
(* and a successful unregister exactly one cancellation message, to the    *)
(* request's email, with the activity name in the subject; any other       *)
(* request hands over none.  A message enters a queue only in the step     *)
(* that commits its roster mutation, and is run only from a queue, in a    *)
(* later step that leaves the registry alone.                              *)
(***************************************************************************)
OneTaskPerSuccess ==
    \A i \in Answered :
        LET e == log[i] IN
        IF IsOk(e.response) /\ e.op \in {"signup", "unregister"}
        THEN /\ Len(e.tasks) = 1
             /\ e.tasks[1].to_email = e.email
             /\ e.tasks[1].subject[2] = e.name
             /\ e.tasks[1].subject[1] =
                    IF e.op = "signup" THEN "Successfully Registered for "
                    ELSE "Activity Registration Cancelled - "
             /\ e.op = "signup" => Enrolled(e.after, e.name, e.email)
        ELSE e.tasks = <<>>

TaskAfterCommit ==
    \A w \in Workers :
        background'[w] /= background[w]
        => \/ /\ served' = served + 1
              /\ IsOk(LastEntry'.response)
              /\ activities' /= activities
              /\ smtp' = <<>> /\ console' = <<>>
              /\ background'[w] = Append(background[w], LastEntry'.tasks[1])
           \/ /\ served' = served
              /\ activities' = activities
              /\ background[w] /= <<>>
              /\ background'[w] = Tail(background[w])
              /\ \/ smtp' = Head(background[w])
                 \/ /\ console' /= <<>>
                    /\ console'[2] = Head(background[w]).to_email

NotificationAfterCommit == []OneTaskPerSuccess /\ [][TaskAfterCommit]_vars

\* a signup and an unregister succeeded and the cancellation was delivered
NotificationWitness ==
    /\ Len(log) = 2
    /\ log[1].op = "signup" /\ IsOk(log[1].response)
    /\ log[2].op = "unregister" /\ IsOk(log[2].response)
    /\ smtp /= <<>>
    /\ smtp = log[2].tasks[1]

(***************************************************************************)
(* C12. A step of the notifier, whether it delivers, fails or skips,       *)
(* changes no roster and no answer already given; it takes its message     *)
(* off the queue for good (a failure is printed, not tried again) and      *)
(* leaves its thread free or at its next message.                          *)
(***************************************************************************)
NotifierStep == smtp' /= <<>> \/ console' /= <<>>

NotifierIsolated ==
    [][NotifierStep
       => /\ activities' = activities
          /\ log' = log /\ served' = served /\ signed' = signed
          /\ req' = req
          /\ \E w \in Workers :
                /\ background[w] /= <<>>
                /\ background' = [background EXCEPT ![w] = Tail(@)]
                /\ pc'[w] \in {"idle", "background"}
                /\ \A v \in Workers \ {w} : pc'[v] = pc[v]]_vars

\* a delivery failed while another message is still waiting and a later
\* request has been answered; the roster change of the last success stands
NotifierWitness ==
    /\ console /= <<>> /\ console[1] = "failed"
    /\ \E w \in Workers : background[w] /= <<>>
    /\ served >= 2
    /\ IsOk(LastEntry.response)
    /\ LastEntry.op = "signup"
    /\ Enrolled(activities, LastEntry.name, LastEntry.email)

(***************************************************************************)
(* C13. A message reaches the transport (delivered or failed) only when    *)
(* host, port and sender address are all set; otherwise send_email only    *)
(* prints that it skips.  With requests processed one at a time, every     *)
(* request is answered and changes the registry as its own registry and    *)
(* arguments dictate, whatever the settings.                               *)
(***************************************************************************)
AllPresent ==
    /\ email_settings.host /= ""
    /\ email_settings.port /= 0
    /\ email_settings.from_email /= ""

TransportTouched == smtp /= <<>> \/ (console /= <<>> /\ console[1] = "failed")

ConfiguredCases ==
    /\ TransportTouched => AllPresent
    /\ ~AllPresent => (console = <<>> \/ console[1] = "skipped")
    /\ \A i \in Answered :
        LET e == log[i] IN
        /\ Outcome(e.response) = ExpectedOutcome(e.before, e.op, e.name, e.email)
        /\ e.after = ExpectedRegistry(e.before, e.op, e.name, e.email)

DeliveryOnlyWhenConfigured == []ConfiguredCases

\* without a sender address a signup succeeded and its message was skipped
UnconfiguredWitness ==
    /\ email_settings.from_email = ""
    /\ console /= <<>> /\ console[1] = "skipped"
    /\ Len(log) > 0
    /\ LastEntry.op = "signup" /\ IsOk(LastEntry.response)
    /\ console[2] = LastEntry.email
    /\ Enrolled(activities, LastEntry.name, LastEntry.email)

(***************************************************************************)
(* C14. With requests processed one at a time, a successful signup leaves  *)
(* the old participants followed by the email (one longer), a successful   *)
(* unregister leaves the old participants without the email, the others    *)
(* in their order (one shorter), and every roster lists its students in    *)
(* the order of their latest successful signup, after the members of the   *)
(* start that never left.                                                  *)
(***************************************************************************)
RosterInOrder ==
    /\ \A i \in Answered :
        LET e      == log[i]
            old    == e.before[e.name].participants
            new    == e.after[e.name].participants
        IN  /\ (e.op = "signup" /\ IsOk(e.response))
               => new = old \o <<e.email>> /\ Len(new) = Len(old) + 1
            /\ (e.op = "unregister" /\ IsOk(e.response))
               => new = Without(old, e.email) /\ Len(new) = Len(old) - 1
    /\ \A a \in DOMAIN activities : activities[a].participants = signup_order[a]

OrderedRoster == []RosterInOrder

\* a member of the start left, came back and now stands last, behind a
\* member of the start who stayed
OrderedRosterWitness ==
    /\ Len(log) = 2
    /\ log[1].op = "unregister" /\ IsOk(log[1].response)
    /\ log[2].op = "signup" /\ IsOk(log[2].response)
    /\ log[1].name = log[2].name /\ log[1].email = log[2].email
    /\ LET now == activities[log[2].name].participants
           was == startup[log[2].name].participants
       IN  /\ was[1] = log[2].email
           /\ now[Len(now)] = log[2].email
           /\ now[1] = was[2]

(***************************************************************************)
(* C15. No step changes the set of activity names or any activity's        *)
(* description, schedule or max_participants; a roster changes only in     *)
(* the step that answers a signup or unregister naming that activity; a    *)
(* listing changes nothing.                                                *)
(***************************************************************************)
FrameStep ==
    /\ DOMAIN activities' = DOMAIN activities
    /\ \A a \in DOMAIN activities :
        /\ activities'[a].description = activities[a].description
        /\ activities'[a].schedule = activities[a].schedule
        /\ activities'[a].max_participants = activities[a].max_participants
        /\ activities'[a].participants /= activities[a].participants
           => /\ served' = served + 1
              /\ LastEntry'.op \in {"signup", "unregister"}
              /\ LastEntry'.name = a
    /\ (served' = served + 1 /\ LastEntry'.op = "list")
       => activities' = activities

RegistryFrame == [][FrameStep]_vars

\* a listing, a signup and an unregister were served; only the rosters
\* they named differ from the start
RegistryFrameWitness ==
    /\ served = 3
    /\ Len(log) = 2
    /\ log[1].op = "signup" /\ IsOk(log[1].response)
    /\ log[2].op = "unregister" /\ IsOk(log[2].response)
    /\ log[1].name /= log[2].name
    /\ \A a \in DOMAIN activities :
        (activities[a].participants /= startup[a].participants)
        <=> a \in {log[1].name, log[2].name}

(***************************************************************************)
(* C16. Two requests naming different activities, however their steps      *)
(* interleave: each is answered as it would be alone on the starting       *)
(* registry, and the final registry is what either order of the two,       *)
(* one after the other, leaves.                                            *)
(***************************************************************************)
DisjointPair ==
    /\ WholeRun
    /\ served = 2
    /\ \A i \in Answered : log[i].op \in {"signup", "unregister"}
    /\ log[1].name /= log[2].name

Alone(e) == ExpectedOutcome(startup, e.op, e.name, e.email)

Then(reg, e) == ExpectedRegistry(reg, e.op, e.name, e.email)

DisjointActivitiesCommute ==
    DisjointPair
    => /\ Outcome(log[1].response) = Alone(log[1])
       /\ Outcome(log[2].response) = Alone(log[2])
       /\ activities = Then(Then(startup, log[1]), log[2])
       /\ activities = Then(Then(startup, log[2]), log[1])

\* one student signed up for two activities, the second request validated
\* before the first committed; the student is now on both rosters
DisjointActivitiesWitness ==
    /\ DisjointPair
    /\ log[1].op = "signup" /\ IsOk(log[1].response)
    /\ log[2].op = "signup" /\ IsOk(log[2].response)
    /\ log[1].email = log[2].email
    /\ log[2].before = startup
    /\ Enrolled(activities, log[1].name, log[1].email)
    /\ Enrolled(activities, log[2].name, log[2].email)

(***************************************************************************)
(* C17. When an unregister is answered Ok, the email occurs nowhere in     *)
(* the roster the handler leaves behind.                                   *)
(***************************************************************************)
UnregisterRemovesEveryOccurrence ==
    \A i \in Answered :
        LET e == log[i] IN
        (e.op = "unregister" /\ IsOk(e.response))
        => ~Enrolled(e.after, e.name, e.email)

=============================================================================
